---- MODULE Spec2Model ----
(***************************************************************************)
(* Model of the Hacker News pipeline of go-version/internal/               *)
(* hackernewsscraper.go (the first, concurrent version of the file, lines  *)
(* 1-928): chunking, the concurrent extraction scheduler, performAnalyze's *)
(* retry loop, and the save / compile / consolidate file phase; and of     *)
(* lambdaHandler of go-version/main.go.                                    *)
(*                                                                         *)
(* Strings are sequences of one-character strings.  The specifications     *)
(* share the module's variables; each one drives its own groups and leaves *)
(* the others at their initial value:                                      *)
(*   SpecChunk    chunkByJobPostings and its helpers on bounded texts      *)
(*   SpecFilter   filterChunksByKeywords on bounded chunk lists            *)
(*   SpecSched    processChunksConcurrently, one process per goroutine     *)
(*   SpecAnalyze  one call of performAnalyze against an arbitrary API      *)
(*   SpecRun      ScrapeHackerNews: pages, per-unit files, compiled.log    *)
(*   SpecBatch    ScrapeHackerNews on one page, scheduler included         *)
(*   SpecHandler  lambdaHandler: one request, from its body to the answer  *)
(***************************************************************************)
EXTENDS Integers, Sequences, FiniteSets, TLC

VARIABLES
    \* ---- SpecChunk
    cphase,      \* "input" | "chunked" | "recombined"
    mode,        \* "text": a cleaned document; "list": a list of chunks
    text,        \* the cleaned document handed to chunkByJobPostings
    xs,          \* the list handed to combineSmallChunks
    chunksOut,   \* the value returned by chunkByJobPostings / combineSmallChunks
    chunksTwice, \* combineSmallChunks applied to chunksOut
    \* ---- SpecFilter: filterChunksByKeywords
    fphase,      \* "input" | "filtered" | "refiltered"
    fin,         \* the chunks handed to filterChunksByKeywords
    fout,        \* the value it returned
    ftwice,      \* filterChunksByKeywords applied to fout
    \* ---- SpecSched: processChunksConcurrently
    chunks,      \* the argument chunks (0-based index i is chunks[i + 1])
    mpc,         \* position of the calling goroutine
    spawnI,      \* loop variable i of the spawning loop
    wpc,         \* position of worker goroutine i
    outcome,     \* worker i's locals result, err after performAnalyze
    semaphore,   \* number of tokens in the semaphore channel
    resultChan,  \* buffered result channel, oldest first
    chanClosed,  \* close(resultChan) has happened
    wg,          \* the WaitGroup counter
    closerPc,    \* position of the goroutine that waits and closes
    results,     \* the collector's results slice
    errors,      \* the collector's errors slice
    sentCount,   \* history: ChunkResults sent with index i
    recvCount,   \* history: ChunkResults with index i taken by the collector
    tookOutOfOrder, \* history: the collector took an index after a higher one
    ret,         \* the value processChunksConcurrently returned
    \* ---- SpecAnalyze: one call of performAnalyze
    apc,         \* position inside performAnalyze
    adata,       \* the argument data
    script,      \* the answers the API gives to the successive requests
    retries,     \* the local retries
    callsMade,   \* history: CreateChatCompletion calls made
    waits,       \* history: the backoff sleeps, in milliseconds
    aret,        \* the value performAnalyze returned
    \* ---- SpecRun: ScrapeHackerNews
    rpc,         \* position inside ScrapeHackerNews
    numPages,    \* len(pagesToScrape)
    pageI,       \* index of the page the loop is at
    pageResults, \* results returned by processChunksConcurrently for the page
    fileIndex,   \* the package variable fileIndex
    outputFiles, \* the per-unit files: k |-> content of output-<k>.log
    compiled,    \* compiled.log: whether it exists, and its bytes
    compileOff,  \* write offset of the file handle compileLogs holds
    loopI,       \* loop variable i of compileLogs
    unitCount,   \* history: units extracted so far in the run
    produced,    \* history: the non-empty contents extracted in the run, in order
    rret,        \* the path and the error ScrapeHackerNews returned
    runStart,    \* history: the value of fileIndex at the start of each run so far
    writes,      \* history: the index k of each os.Create of output-<k>.log, in order
    pageLog,     \* history: the pages runScript was called with in the run, and how far each got
    \* ---- SpecHandler: lambdaHandler
    hpc,         \* "parse" | "dispatch" | "scraping" | "answered"
    request,     \* the request: its body (JSON tokens) and its scraper parameter
    pagesToScrape, \* the slice json.Unmarshal filled
    response     \* the answer: status code, success flag, message

chunkVars == <<cphase, mode, text, xs, chunksOut, chunksTwice>>

filterVars == <<fphase, fin, fout, ftwice>>

schedVars == <<chunks, mpc, spawnI, wpc, outcome, semaphore, resultChan, chanClosed,
               wg, closerPc, results, errors, sentCount, recvCount, tookOutOfOrder, ret>>

analyzeVars == <<apc, adata, script, retries, callsMade, waits, aret>>

runVars == <<rpc, numPages, pageI, pageResults, fileIndex, outputFiles, compiled,
             compileOff, loopI, unitCount, produced, rret, runStart, writes,
             pageLog>>

handlerVars == <<hpc, request, pagesToScrape, response>>

nonChunkVars == <<filterVars, schedVars, analyzeVars, runVars, handlerVars>>

nonFilterVars == <<chunkVars, schedVars, analyzeVars, runVars, handlerVars>>

nonSchedVars == <<chunkVars, filterVars, analyzeVars, runVars, handlerVars>>

nonAnalyzeVars == <<chunkVars, filterVars, schedVars, runVars, handlerVars>>

nonRunVars == <<chunkVars, filterVars, schedVars, analyzeVars, handlerVars>>

vars == <<chunkVars, filterVars, schedVars, analyzeVars, runVars, handlerVars>>

(***************************************************************************)
(* Bounds of the model                                                     *)
(***************************************************************************)
\* stands for maxChunkSize := 30000 (and simpleChunk's chunkSize 30000),
\* scaled so that bounded texts reach it
MaxChunkSize == 6
\* longest cleaned document drawn
MaxTextLen == 8
\* longest chunk list drawn for combineSmallChunks and filterChunksByKeywords
MaxListLen == 3
\* most chunks handed to processChunksConcurrently
MaxChunks == 3
\* stands for the constant maxConcurrentRequests = 4, scaled so that a batch
\* of MaxChunks workers, every interleaving of which is explored, exceeds it
maxConcurrentRequests == 2
\* most rate-limit answers the API gives in a row before its final answer
MaxFailures == 7
\* most pages given to ScrapeHackerNews
MaxPages == 2
\* most units extracted by one process, over all its runs and pages
MaxUnits == 11
\* most runs of ScrapeHackerNews in one process
MaxRuns == 2
\* most sentences (pieces between ". ") of a posting drawn for
\* splitLargeJobPosting taken alone
MaxSentences == 4
\* most JSON tokens in the body of a request
MaxBodyLen == 3
\* stands for maxChunkSize := 30000 in the runs of a whole page, scaled so
\* that two of the page's short postings fit in one chunk and three do not
BatchChunkSize == 10

(***************************************************************************)
(* Program constants                                                       *)
(***************************************************************************)
maxRetries == 5

retryBaseDelay == 1000

maxRetryDelay == 60000

(***************************************************************************)
(* Strings                                                                 *)
(***************************************************************************)
\* "<" stands for one occurrence of the boundary marker `<a id=up_\d+`;
\* the cleaned text holds no newline (breakUpData removes "\n")
Alphabet == {"<", ".", " ", "x"}

Separator == <<"\n", "\n">>

DotSpace == <<".", " ">>

Min(a, b) == IF a < b THEN a ELSE b

RECURSIVE Flatten(_)
Flatten(ss) == IF ss = <<>> THEN <<>> ELSE Head(ss) \o Flatten(Tail(ss))

\* all strings over S of length at most n
StringsUpTo(S, n) == UNION {[1..k -> S] : k \in 0..n}

\* strings.HasSuffix(s, ".")
HasSuffixDot(s) == Len(s) > 0 /\ s[Len(s)] = "."

\* index of the first ". " in s at or after position i, 0 when there is none
RECURSIVE IndexDotSpace(_, _)
IndexDotSpace(s, i) ==
    IF i + 1 > Len(s) THEN 0
    ELSE IF s[i] = "." /\ s[i + 1] = " " THEN i
    ELSE IndexDotSpace(s, i + 1)

\* strings.Split(s, ". "): the pieces between the non-overlapping leftmost
\* occurrences of ". "; one more piece than occurrences
RECURSIVE SplitDotSpace(_)
SplitDotSpace(s) ==
    LET i == IndexDotSpace(s, 1)
    IN  IF i = 0 THEN <<s>>
        ELSE <<SubSeq(s, 1, i - 1)>> \o SplitDotSpace(SubSeq(s, i + 2, Len(s)))

(***************************************************************************)
(* filterChunksByKeywords                                                  *)
(***************************************************************************)
LowerCase == <<
    "a", "b", "c", "d", "e", "f", "g", "h", "i", "j", "k", "l", "m", "n", "o",
    "p", "q", "r", "s", "t", "u", "v", "w", "x", "y", "z">>

UpperCase == <<
    "A", "B", "C", "D", "E", "F", "G", "H", "I", "J", "K", "L", "M", "N", "O",
    "P", "Q", "R", "S", "T", "U", "V", "W", "X", "Y", "Z">>

\* strings.ToLower on one byte: an upper-case letter becomes its lower-case
\* letter, any other byte is unchanged
ToLowerByte(c) ==
    IF \E k \in 1..Len(UpperCase) : UpperCase[k] = c
    THEN LowerCase[CHOOSE k \in 1..Len(UpperCase) : UpperCase[k] = c]
    ELSE c

ToLower(str) == [p \in 1..Len(str) |-> ToLowerByte(str[p])]

\* a lower-case letter becomes its upper-case letter, any other byte is unchanged
ToUpperByte(c) ==
    IF \E k \in 1..Len(LowerCase) : LowerCase[k] = c
    THEN UpperCase[CHOOSE k \in 1..Len(LowerCase) : LowerCase[k] = c]
    ELSE c

\* the bug of testing the keyword at the start of the text only
HasPrefix(str, substr) ==
    Len(substr) <= Len(str) /\ SubSeq(str, 1, Len(substr)) = substr

\* strings.Contains(str, substr)
Contains(str, substr) ==
    \E i \in 0..(Len(str) - Len(substr)) : SubSeq(str, i + 1, i + Len(substr)) = substr

includeKeywords == <<
    <<"r", "e", "a", "c", "t">>,
    <<"r", "e", "a", "c", "t", "j", "s">>,
    <<"r", "e", "a", "c", "t", ".", "j", "s">>,
    <<"v", "u", "e">>,
    <<"v", "u", "e", "j", "s">>,
    <<"v", "u", "e", ".", "j", "s">>,
    <<"g", "o">>,
    <<"g", "o", "l", "a", "n", "g">>,
    <<"g", "o", "-", "l", "a", "n", "g">>,
    <<"j", "a", "v", "a", "s", "c", "r", "i", "p", "t">>,
    <<"j", "s">>,
    <<"t", "y", "p", "e", "s", "c", "r", "i", "p", "t">>,
    <<"t", "s">>,
    <<"a", "w", "s">>,
    <<"a", "m", "a", "z", "o", "n", " ", "w", "e", "b", " ", "s", "e", "r", "v", "i", "c", "e", "s">>,
    <<"n", "o", "d", "e">>,
    <<"n", "o", "d", "e", "j", "s">>,
    <<"n", "o", "d", "e", ".", "j", "s">>,
    <<"n", "e", "x", "t">>,
    <<"n", "e", "x", "t", "j", "s">>,
    <<"n", "e", "x", "t", ".", "j", "s">>,
    <<"a", "n", "g", "u", "l", "a", "r">>,
    <<"a", "n", "g", "u", "l", "a", "r", "j", "s">>,
    <<"s", "v", "e", "l", "t", "e">>,
    <<"s", "v", "e", "l", "t", "e", "k", "i", "t">>,
    <<"e", "x", "p", "r", "e", "s", "s">>,
    <<"e", "x", "p", "r", "e", "s", "s", "j", "s">>,
    <<"p", "o", "s", "t", "g", "r", "e", "s", "q", "l">>,
    <<"p", "o", "s", "t", "g", "r", "e", "s">>,
    <<"m", "o", "n", "g", "o", "d", "b">>,
    <<"m", "o", "n", "g", "o">>,
    <<"d", "o", "c", "k", "e", "r">>,
    <<"k", "u", "b", "e", "r", "n", "e", "t", "e", "s">>,
    <<"k", "8", "s">>,
    <<"g", "r", "a", "p", "h", "q", "l">>>>

\* the loop over includeKeywords: hasRelevantTech
hasRelevantTech(chunk) ==
    LET chunkLower == ToLower(chunk)
    IN  \E w \in 1..Len(includeKeywords) : Contains(chunkLower, ToLower(includeKeywords[w]))

\* the loop over chunks: an accepted chunk is appended to filteredChunks
RECURSIVE FilterLoop(_, _)
FilterLoop(filteredChunks, list) ==
    IF list = <<>> THEN filteredChunks
    ELSE FilterLoop(IF hasRelevantTech(Head(list))
                    THEN Append(filteredChunks, Head(list))
                    ELSE filteredChunks,
                    Tail(list))

\* the bug of blanking a rejected chunk in place instead of leaving it out
filterChunksBlanking(list) ==
    [j \in 1..Len(list) |-> IF hasRelevantTech(list[j]) THEN list[j] ELSE <<>>]

filterChunksByKeywords(list) == FilterLoop(<<>>, list)

(***************************************************************************)
(* splitLargeJobPosting                                                    *)
(***************************************************************************)
\* one iteration of the loop over sentences; st = [chunks, cur]
SplitStep(st, sentence, maxSize) ==
    LET flush == Len(st.cur) + Len(sentence) + 2 > maxSize /\ Len(st.cur) > 0
        chunks1 == IF flush THEN Append(st.chunks, st.cur) ELSE st.chunks
        cur1 == IF flush THEN <<>> ELSE st.cur
        cur2 == cur1 \o sentence
        cur3 == IF ~HasSuffixDot(sentence) THEN cur2 \o DotSpace ELSE cur2
    IN  [chunks |-> chunks1, cur |-> cur3]

RECURSIVE SplitLoop(_, _, _)
SplitLoop(st, sentences, maxSize) ==
    IF sentences = <<>> THEN st
    ELSE SplitLoop(SplitStep(st, Head(sentences), maxSize), Tail(sentences), maxSize)

splitLargeJobPosting(jobPosting, maxSize) ==
    LET st == SplitLoop([chunks |-> <<>>, cur |-> <<>>],
                        SplitDotSpace(jobPosting), maxSize)
    IN  IF Len(st.cur) > 0 THEN Append(st.chunks, st.cur) ELSE st.chunks

(***************************************************************************)
(* combineSmallChunks                                                      *)
(***************************************************************************)
\* the bug of appending to the accumulator without the separator
CombineStepNoSeparator(st, chunk, maxSize) ==
    LET newSize == Len(st.cur) + Len(chunk) + 4
    IN  IF newSize <= maxSize
        THEN [combined |-> st.combined, cur |-> st.cur \o chunk]
        ELSE [combined |-> IF Len(st.cur) > 0 THEN Append(st.combined, st.cur)
                           ELSE st.combined,
              cur |-> chunk]

\* one iteration of the loop over chunks; st = [combined, cur]
CombineStep(st, chunk, maxSize) ==
    LET newSize == Len(st.cur) + Len(chunk) + 4
    IN  IF newSize <= maxSize
        THEN [combined |-> st.combined,
              cur |-> (IF Len(st.cur) > 0 THEN st.cur \o Separator ELSE st.cur)
                      \o chunk]
        ELSE [combined |-> IF Len(st.cur) > 0 THEN Append(st.combined, st.cur)
                           ELSE st.combined,
              cur |-> chunk]

RECURSIVE CombineLoop(_, _, _)
CombineLoop(st, list, maxSize) ==
    IF list = <<>> THEN st
    ELSE CombineLoop(CombineStep(st, Head(list), maxSize), Tail(list), maxSize)

\* the bug of forgetting the accumulator left over after the loop
combineSmallChunksNoLastFlush(list, maxSize) ==
    CombineLoop([combined |-> <<>>, cur |-> <<>>], list, maxSize).combined

combineSmallChunks(list, maxSize) ==
    LET st == CombineLoop([combined |-> <<>>, cur |-> <<>>], list, maxSize)
    IN  IF Len(st.cur) > 0 THEN Append(st.combined, st.cur) ELSE st.combined

(***************************************************************************)
(* simpleChunk and chunkByJobPostings                                      *)
(***************************************************************************)
RECURSIVE SimpleChunkFrom(_, _, _)
SimpleChunkFrom(data, i, chunkSize) ==
    IF i >= Len(data) THEN <<>>
    ELSE LET end == Min(i + chunkSize, Len(data))
         IN  <<SubSeq(data, i + 1, end)>> \o SimpleChunkFrom(data, i + chunkSize, chunkSize)

\* the bug of keeping only the slices that are chunkSize long
simpleChunkFullSlicesOnly(data, chunkSize) ==
    SelectSeq(SimpleChunkFrom(data, 0, chunkSize), LAMBDA c : Len(c) = chunkSize)

\* i is the 0-based byte offset of the loop; data[i:end] is SubSeq(data, i+1, end)
simpleChunk(data, chunkSize) == SimpleChunkFrom(data, 0, chunkSize)

\* re.FindAllStringIndex(data, -1): the start offsets (1-based here) of the markers
RECURSIVE MatchesFrom(_, _)
MatchesFrom(data, i) ==
    IF i > Len(data) THEN <<>>
    ELSE IF data[i] = "<" THEN <<i>> \o MatchesFrom(data, i + 1)
    ELSE MatchesFrom(data, i + 1)

Matches(data) == MatchesFrom(data, 1)

\* the body of the loop over matches: posting i, split when oversized
PostingChunks(data, matches, i, maxChunkSize) ==
    LET start == matches[i]
        end == IF i < Len(matches) THEN matches[i + 1] - 1 ELSE Len(data)
        jobPosting == SubSeq(data, start, end)
    IN  IF Len(jobPosting) > maxChunkSize
        THEN splitLargeJobPosting(jobPosting, maxChunkSize)
        ELSE <<jobPosting>>

\* the chunks appended by the loop, before combineSmallChunks
PostingList(data, maxChunkSize) ==
    LET matches == Matches(data)
    IN  Flatten([i \in 1..Len(matches) |-> PostingChunks(data, matches, i, maxChunkSize)])

\* chunkByJobPostings with size standing for its two literals 30000
chunkByJobPostingsAt(data, size) ==
    IF Len(Matches(data)) = 0
    THEN simpleChunk(data, size)
    ELSE combineSmallChunks(PostingList(data, size), size)

chunkByJobPostings(data) == chunkByJobPostingsAt(data, MaxChunkSize)

(***************************************************************************)
(* SpecChunk: the chunking functions applied to bounded inputs             *)
(***************************************************************************)
ChunkInputs == StringsUpTo(Alphabet, MaxTextLen)

\* longer cleaned documents without a boundary marker, up to one byte more
\* than three full slices; the bytes cycle through ".", " ", "x" from offset o
PlainCycle == <<".", " ", "x">>

PlainInputs ==
    {[p \in 1..n |-> PlainCycle[((p + o) % 3) + 1]] :
        n \in (MaxTextLen + 1)..(3 * MaxChunkSize + 1), o \in 0..2}

\* the sentences of the postings drawn for splitLargeJobPosting taken alone:
\* empty, with and without a final ".", one or two bytes of text
Sentences == {<<>>, <<".">>, <<"x">>, <<"x", ".">>, <<"x", "x">>}

\* the sentences ss joined by ". "
RECURSIVE JoinDotSpace(_)
JoinDotSpace(ss) ==
    IF Len(ss) = 1 THEN ss[1] ELSE ss[1] \o DotSpace \o JoinDotSpace(Tail(ss))

\* postings as chunkByJobPostings cuts them: from a marker up to the next
\* one, so the marker is the first byte and occurs nowhere else
PostingInputs ==
    {<<"<">> \o JoinDotSpace(ss) : ss \in StringsUpTo(Sentences, MaxSentences) \ {<<>>}}

\* chunk lists for combineSmallChunks taken alone: any lengths 0..MaxChunkSize+1
ListChunks == {[i \in 1..k |-> "x"] : k \in 0..(MaxChunkSize + 1)}

ListInputs == StringsUpTo(ListChunks, MaxListLen)

NoRet == [results |-> <<>>, content |-> <<>>, err |-> "unset"]

ChunkIdle ==
    /\ cphase = "idle" /\ mode = "none" /\ text = <<>> /\ xs = <<>>
    /\ chunksOut = <<>> /\ chunksTwice = <<>>

FilterIdle == fphase = "idle" /\ fin = <<>> /\ fout = <<>> /\ ftwice = <<>>

SchedIdle ==
    /\ chunks = <<>> /\ mpc = "idle" /\ spawnI = 0 /\ wpc = <<>> /\ outcome = <<>>
    /\ semaphore = 0 /\ resultChan = <<>> /\ chanClosed = FALSE /\ wg = 0
    /\ closerPc = "idle" /\ results = <<>> /\ errors = <<>>
    /\ sentCount = <<>> /\ recvCount = <<>> /\ tookOutOfOrder = FALSE /\ ret = NoRet

AnalyzeIdle ==
    /\ apc = "idle" /\ adata = <<>> /\ script = <<>> /\ retries = 0 /\ callsMade = 0
    /\ waits = <<>> /\ aret = NoRet

NoFile == [exists |-> FALSE, data |-> <<>>]

\* ScrapeHackerNews has not returned
NoScrapeRet == [path |-> "none", err |-> "none"]

RunIdle ==
    /\ rpc = "idle" /\ numPages = 0 /\ pageI = 0 /\ pageResults = <<>> /\ fileIndex = 0
    /\ outputFiles = <<>> /\ compiled = NoFile /\ compileOff = 0 /\ loopI = 0
    /\ unitCount = 0 /\ produced = <<>> /\ rret = NoScrapeRet /\ runStart = <<>>
    /\ writes = <<>>
    /\ pageLog = <<>>

\* no request has been received
NoResponse == [status |-> 0, success |-> FALSE, message |-> "none"]

HandlerIdle ==
    /\ hpc = "idle" /\ request = [body |-> <<>>, scraper |-> ""]
    /\ pagesToScrape = <<>> /\ response = NoResponse

InitChunk ==
    /\ HandlerIdle
    /\ FilterIdle /\ SchedIdle /\ AnalyzeIdle /\ RunIdle
    /\ cphase = "input"
    /\ chunksOut = <<>>
    /\ chunksTwice = <<>>
    /\ \/ mode = "text" /\ text \in ChunkInputs \cup PlainInputs /\ xs = <<>>
       \/ mode = "posting" /\ text \in PostingInputs /\ xs = <<>>
       \/ mode = "list" /\ text = <<>> /\ xs \in ListInputs

\* breakUpData's call chunks, err := chunkByJobPostings(reformattedData)
ChunkText ==
    /\ cphase = "input" /\ mode = "text"
    /\ chunksOut' = chunkByJobPostings(text)
    /\ cphase' = "chunked"
    /\ UNCHANGED <<mode, text, xs, chunksTwice, nonChunkVars>>

\* splitLargeJobPosting applied to a posting
SplitPosting ==
    /\ cphase = "input" /\ mode = "posting"
    /\ chunksOut' = splitLargeJobPosting(text, MaxChunkSize)
    /\ cphase' = "split"
    /\ UNCHANGED <<mode, text, xs, chunksTwice, nonChunkVars>>

\* combineSmallChunks applied to a list of chunks
CombineList ==
    /\ cphase = "input" /\ mode = "list"
    /\ chunksOut' = combineSmallChunks(xs, MaxChunkSize)
    /\ cphase' = "chunked"
    /\ UNCHANGED <<mode, text, xs, chunksTwice, nonChunkVars>>

\* combineSmallChunks applied to the value returned before
CombineAgain ==
    /\ cphase = "chunked"
    /\ chunksTwice' = combineSmallChunks(chunksOut, MaxChunkSize)
    /\ cphase' = "recombined"
    /\ UNCHANGED <<mode, text, xs, chunksOut, nonChunkVars>>

NextChunk == ChunkText \/ SplitPosting \/ CombineList \/ CombineAgain

SpecChunk == InitChunk /\ [][NextChunk]_vars

(***************************************************************************)
(* Properties of the chunking functions                                    *)
(***************************************************************************)
\* the chunks with every newline removed: the cleaned text holds none, so
\* the newlines of a chunk are exactly the separators the merge inserted
StripSeparators(s) == SelectSeq(s, LAMBDA c : c # "\n")

\* the list combineSmallChunks was first applied to
CombineInput == IF mode = "list" THEN xs ELSE PostingList(text, MaxChunkSize)

CombineApplied == mode = "list" \/ (mode = "text" /\ Len(Matches(text)) > 0)

AllWithin(list, maxSize) == \A i \in 1..Len(list) : Len(list[i]) <= maxSize

\* C6: every chunk returned by chunkByJobPostings is at most the maximum
\* unit size long, for every input text.
C6_EveryChunkWithinMax ==
    (cphase = "chunked" /\ mode = "text") => AllWithin(chunksOut, MaxChunkSize)

\* C9: for a cleaned text with at least one boundary marker, the chunks
\* returned by chunkByJobPostings, concatenated in order with the merge
\* separators removed, are exactly the cleaned text.
C9_LosslessReconstruction ==
    (cphase = "chunked" /\ mode = "text" /\ Len(Matches(text)) > 0)
        => StripSeparators(Flatten(chunksOut)) = text

\* C10: combineSmallChunks is idempotent: on an input whose chunks are each
\* no longer than maxSize, merging the merged list again returns it unchanged.
C10_CombineIdempotent ==
    (cphase = "recombined" /\ CombineApplied /\ AllWithin(CombineInput, MaxChunkSize))
        => chunksTwice = chunksOut

\* C10 witness: a list of in-bound chunks of which some were merged and some
\* were not, merged a second time
C10_Witness ==
    /\ cphase = "recombined" /\ CombineApplied
    /\ AllWithin(CombineInput, MaxChunkSize)
    /\ Len(chunksOut) >= 2
    /\ Len(chunksOut) < Len(CombineInput)

CeilDiv(n, d) == (n + d - 1) \div d

\* C11: for a cleaned text of length n without a boundary marker,
\* chunkByJobPostings returns exactly ceil(n / chunkSize) chunks, the k-th
\* being the k-th consecutive slice of chunkSize bytes (the last one possibly
\* shorter); their concatenation is the text, no merge separator is added,
\* and a text of length 3 * chunkSize gives exactly 3 chunks of chunkSize.
C11_FallbackFixedSizeSlices ==
    (cphase = "chunked" /\ mode = "text" /\ Len(Matches(text)) = 0) =>
        LET n == Len(text)
        IN  /\ Len(chunksOut) = CeilDiv(n, MaxChunkSize)
            /\ \A k \in 1..Len(chunksOut) :
                   chunksOut[k] = SubSeq(text, (k - 1) * MaxChunkSize + 1,
                                         Min(k * MaxChunkSize, n))
            /\ Flatten(chunksOut) = text
            /\ n = 3 * MaxChunkSize =>
                   /\ Len(chunksOut) = 3
                   /\ \A k \in 1..3 : Len(chunksOut[k]) = MaxChunkSize

\* C11 witness: a marker-free text of exactly three slices has been chunked
C11_Witness ==
    /\ cphase = "chunked" /\ mode = "text" /\ Len(Matches(text)) = 0
    /\ Len(text) = 3 * MaxChunkSize
    /\ Len(chunksOut) = 3

\* what a sentence contributes to a sub-unit: itself, followed by ". "
\* unless it ends in "."
Emitted(sentence) == IF HasSuffixDot(sentence) THEN sentence ELSE sentence \o DotSpace

\* the sub-units of a grouping of the consecutive sentences ss, given by the
\* set cuts of the positions after which a new sub-unit starts
GroupsOf(ss, cuts) ==
    LET ends == SelectSeq([p \in 1..Len(ss) |-> p], LAMBDA p : p \in cuts \/ p = Len(ss))
    IN  [g \in 1..Len(ends) |->
            Flatten([q \in 1..(ends[g] - (IF g = 1 THEN 0 ELSE ends[g - 1])) |->
                        Emitted(ss[(IF g = 1 THEN 0 ELSE ends[g - 1]) + q])])]

AllCuts(ss) == SUBSET (1..(Len(ss) - 1))

\* the groupings whose sub-units are all at most maxSize long
FittingCuts(ss, maxSize) == {c \in AllCuts(ss) : AllWithin(GroupsOf(ss, c), maxSize)}

\* C22: for an oversized posting, splitLargeJobPosting groups the sentences
\* of the posting into as few sub-units as any grouping of consecutive
\* sentences whose sub-units are all at most maxSize long, and it starts a new
\* sub-unit only when the next sentence would not fit in the current one.
C22_SplitUsesFewestSubUnits ==
    (cphase = "split" /\ Len(text) > MaxChunkSize) =>
        LET ss == SplitDotSpace(text)
            made == {c \in AllCuts(ss) : GroupsOf(ss, c) = chunksOut}
        IN  /\ made # {}
            /\ \A c \in FittingCuts(ss, MaxChunkSize) :
                   Len(chunksOut) <= Len(GroupsOf(ss, c))
            /\ \A c \in made : \A p \in c :
                   LET g == Cardinality({q \in c : q <= p})
                   IN  Len(chunksOut[g]) + Len(Emitted(ss[p + 1])) > MaxChunkSize

\* C23: concatenating the sub-units returned by splitLargeJobPosting in
\* order gives back the posting exactly, no byte added and none lost.
C23_SplitRoundTrips ==
    cphase = "split" => Flatten(chunksOut) = text

\* the first input chunk merged into the emitted chunk c: c up to its first
\* separator (input chunks hold no newline)
RECURSIVE FirstPart(_)
FirstPart(c) ==
    IF c = <<>> \/ Head(c) = "\n" THEN <<>> ELSE <<Head(c)>> \o FirstPart(Tail(c))

NoneEmpty(list) == \A i \in 1..Len(list) : list[i] # <<>>

\* C24: combineSmallChunks appends a chunk to the accumulator exactly when
\* accumulator + separator + chunk is at most maxSize long: an emitted chunk
\* made of several input chunks is within maxSize, a new accumulator is
\* started only with a chunk that would not have fitted after the separator,
\* and so no two adjacent emitted chunks fit together with the separator.
C24_AppendExactlyWhenItFits ==
    (cphase = "chunked" /\ CombineApplied /\ NoneEmpty(CombineInput)) =>
        /\ \A k \in 1..Len(chunksOut) :
               FirstPart(chunksOut[k]) # chunksOut[k] => Len(chunksOut[k]) <= MaxChunkSize
        /\ \A k \in 1..(Len(chunksOut) - 1) :
               /\ Len(chunksOut[k]) + Len(Separator) + Len(FirstPart(chunksOut[k + 1]))
                      > MaxChunkSize
               /\ Len(chunksOut[k]) + Len(Separator) + Len(chunksOut[k + 1])
                      > MaxChunkSize

\* the chunks of list joined by the separator
RECURSIVE JoinSeparator(_)
JoinSeparator(list) ==
    IF list = <<>> THEN <<>>
    ELSE IF Len(list) = 1 THEN list[1]
    ELSE list[1] \o Separator \o JoinSeparator(Tail(list))

\* the pieces of the emitted chunk c between its separators
RECURSIVE Parts(_)
Parts(c) ==
    LET f == FirstPart(c)
    IN  IF Len(f) = Len(c) THEN <<f>>
        ELSE <<f>> \o Parts(SubSeq(c, Len(f) + Len(Separator) + 1, Len(c)))

\* C25: for non-empty input chunks, the chunks emitted by combineSmallChunks
\* joined by the separator are the input chunks joined by the separator, and
\* the pieces of the emitted chunks, taken in order, are exactly the input
\* chunks: each once, unmodified and in input order.
C25_CombinePreservesContentAndOrder ==
    (cphase = "chunked" /\ CombineApplied /\ NoneEmpty(CombineInput)) =>
        /\ JoinSeparator(chunksOut) = JoinSeparator(CombineInput)
        /\ Flatten([k \in 1..Len(chunksOut) |-> Parts(chunksOut[k])]) = CombineInput

\* C25 witness: of three non-empty chunks the first two were merged and the
\* third, which did not fit, was emitted on its own
C25_Witness ==
    /\ cphase = "chunked" /\ mode = "list" /\ NoneEmpty(xs)
    /\ Len(xs) = 3 /\ Len(chunksOut) = 2
    /\ chunksOut[1] = xs[1] \o Separator \o xs[2]
    /\ chunksOut[2] = xs[3]

(***************************************************************************)
(* SpecFilter: filterChunksByKeywords applied to bounded chunk lists       *)
(***************************************************************************)
\* chunk texts: a core that is a keyword in some case, a near miss or
\* nothing, alone or with another byte before and after it
FilterCores ==
    {<<>>, <<"g", "o">>, <<"G", "o">>, <<"t", "S">>, <<"o", "g">>, <<"g", " ", "o">>}

FilterTexts ==
    {pre \o core \o post : pre \in {<<>>, <<"x">>}, core \in FilterCores,
                            post \in {<<>>, <<"x">>}}

FilterInputs == StringsUpTo(FilterTexts, MaxListLen)

InitFilter ==
    /\ HandlerIdle
    /\ ChunkIdle /\ SchedIdle /\ AnalyzeIdle /\ RunIdle
    /\ fphase = "input"
    /\ fin \in FilterInputs
    /\ fout = <<>>
    /\ ftwice = <<>>

\* runScript's call filteredChunks := filterChunksByKeywords(chunks)
FilterChunks ==
    /\ fphase = "input"
    /\ fout' = filterChunksByKeywords(fin)
    /\ fphase' = "filtered"
    /\ UNCHANGED <<fin, ftwice, nonFilterVars>>

\* filterChunksByKeywords applied to the value returned before
FilterAgain ==
    /\ fphase = "filtered"
    /\ ftwice' = filterChunksByKeywords(fout)
    /\ fphase' = "refiltered"
    /\ UNCHANGED <<fin, fout, nonFilterVars>>

NextFilter == FilterChunks \/ FilterAgain

SpecFilter == InitFilter /\ [][NextFilter]_vars

(***************************************************************************)
(* Properties of the filter                                                *)
(***************************************************************************)
\* kw occurs in c at offset i when case is ignored
OccursAt(c, kw, i) ==
    /\ i + Len(kw) - 1 <= Len(c)
    /\ \A p \in 1..Len(kw) : ToLowerByte(c[i + p - 1]) = kw[p]

\* the lower-cased text of c contains at least one include keyword
MentionsKeyword(c) ==
    \E w \in 1..Len(includeKeywords) : \E i \in 1..Len(c) : OccursAt(c, includeKeywords[w], i)

\* the positions of list whose chunk mentions a keyword, ascending
KeptPositions(list) ==
    SelectSeq([j \in 1..Len(list) |-> j], LAMBDA j : MentionsKeyword(list[j]))

\* C19: filterChunksByKeywords returns exactly the chunks whose lower-cased
\* text contains an include keyword as a substring, in their original
\* relative order (a chunk without keyword is left out and nothing else
\* happens), and filtering the returned list again returns it unchanged.
C19_FilterKeepsKeywordChunksInOrder ==
    /\ fphase \in {"filtered", "refiltered"} =>
           LET kept == KeptPositions(fin)
           IN  fout = [k \in 1..Len(kept) |-> fin[kept[k]]]
    /\ fphase = "refiltered" => ftwice = fout

\* C19 witness: of three chunks the middle one has no keyword and the
\* outer ones have one in different case and position; filtered twice
C19_Witness ==
    /\ fphase = "refiltered"
    /\ Len(fin) = 3 /\ Len(fout) = 2
    /\ fin[1] = <<"x", "G", "o">> /\ ~MentionsKeyword(fin[2]) /\ fin[3] = <<"t", "S", "x">>
    /\ fout = <<fin[1], fin[3]>>

(***************************************************************************)
(* SpecSched: processChunksConcurrently                                    *)
(***************************************************************************)
\* the texts of the units: unit i (0-based) is the one-character text UnitLetters[i+1]
UnitLetters == <<"a", "b", "c", "d", "e", "f", "g", "h", "i", "j", "k", "l", "m", "n">>

UpperLetters == <<"A", "B", "C", "D", "E", "F", "G", "H", "I", "J", "K", "L", "M", "N">>

\* the content the extraction service gives for a unit when it gives any:
\* the unit's text in upper case
Extract(data) == [p \in 1..Len(data) |-> ToUpperByte(data[p])]

\* what performAnalyze can return for data: a content (possibly the empty
\* string, when the response has no choices) with a nil error, or "" with an error
AnalyzeOutcomes(data) ==
    {[content |-> Extract(data), err |-> "nil"],
     [content |-> <<>>, err |-> "nil"],
     [content |-> <<>>, err |-> "failed"]}

Workers == 0..(Len(chunks) - 1)

\* semaphore <- struct{}{} can proceed: the channel of capacity
\* maxConcurrentRequests is not full
SemaphoreOversized == semaphore < Len(chunks)

SemaphoreHasRoom == semaphore < maxConcurrentRequests

\* the bug of the goroutine closing over the loop variable instead of taking
\* index as an argument: every worker reports the last index
ChunkResultCaptured(index, o) ==
    [Index |-> Len(chunks) - 1, Content |-> o.content, Error |-> o.err]

\* ChunkResult{Index: index, Content: result, Error: err}
ChunkResultOf(index, o) == [Index |-> index, Content |-> o.content, Error |-> o.err]

\* the bug of appending the contents in arrival order
Taken == Cardinality({j \in Workers : recvCount[j] > 0})

StoreResultInArrivalOrder(res, result) == [res EXCEPT ![Taken + 1] = result.Content]

\* results[result.Index] = result.Content
StoreResult(res, result) == [res EXCEPT ![result.Index + 1] = result.Content]

\* the chunks runScript hands to the filter: the unit at position j carries
\* the letter UnitLetters[j], alone or after the keyword "go"
SchedInputs ==
    UNION {{f \in [1..n -> {<<UnitLetters[j]>> : j \in 1..n}
                           \cup {<<"g", "o", UnitLetters[j]>> : j \in 1..n}] :
               \A j \in 1..n : f[j][Len(f[j])] = UnitLetters[j]} : n \in 0..MaxChunks}

\* runScript: processChunksConcurrently is called with the filtered chunks
InitSched ==
    /\ HandlerIdle
    /\ ChunkIdle /\ AnalyzeIdle /\ RunIdle
    /\ fphase = "filtered"
    /\ fin \in SchedInputs
    /\ fout = filterChunksByKeywords(fin)
    /\ ftwice = <<>>
    /\ chunks = fout
    /\ mpc = "spawn"
    /\ spawnI = 0
    /\ wpc = [i \in Workers |-> "unborn"]
    /\ outcome = [i \in Workers |-> [content |-> <<>>, err |-> "unset"]]
    /\ semaphore = 0
    /\ resultChan = <<>>
    /\ chanClosed = FALSE
    /\ wg = 0
    /\ closerPc = "unborn"
    /\ results = <<>>
    /\ errors = <<>>
    /\ sentCount = [i \in Workers |-> 0]
    /\ recvCount = [i \in Workers |-> 0]
    /\ tookOutOfOrder = FALSE
    /\ ret = NoRet

\* one iteration of `for i, chunk := range chunks`: wg.Add(1); go func(i, chunk)
Spawn ==
    /\ mpc = "spawn" /\ spawnI < Len(chunks)
    /\ wg' = wg + 1
    /\ wpc' = [wpc EXCEPT ![spawnI] = "acquire"]
    /\ spawnI' = spawnI + 1
    /\ UNCHANGED <<chunks, mpc, outcome, semaphore, resultChan, chanClosed, closerPc,
                   results, errors, sentCount, recvCount, tookOutOfOrder, ret, nonSchedVars>>

\* after the loop: start the closing goroutine, make the results slice and
\* enter the range loop over resultChan
StartCollect ==
    /\ mpc = "spawn" /\ spawnI = Len(chunks)
    /\ closerPc' = "wait"
    /\ results' = [i \in 1..Len(chunks) |-> <<>>]
    /\ errors' = <<>>
    /\ mpc' = "collect"
    /\ UNCHANGED <<chunks, spawnI, wpc, outcome, semaphore, resultChan, chanClosed, wg,
                   sentCount, recvCount, tookOutOfOrder, ret, nonSchedVars>>

\* worker: semaphore <- struct{}{}; then the stagger sleep when index*500 > 0
Acquire(i) ==
    /\ wpc[i] = "acquire"
    /\ SemaphoreHasRoom
    /\ semaphore' = semaphore + 1
    /\ wpc' = [wpc EXCEPT ![i] = IF i * 500 > 0 THEN "stagger" ELSE "analyze"]
    /\ UNCHANGED <<chunks, mpc, spawnI, outcome, resultChan, chanClosed, wg, closerPc,
                   results, errors, sentCount, recvCount, tookOutOfOrder, ret, nonSchedVars>>

\* worker: time.Sleep(staggerDelay) is over; performAnalyze is entered
StaggerDone(i) ==
    /\ wpc[i] = "stagger"
    /\ wpc' = [wpc EXCEPT ![i] = "analyze"]
    /\ UNCHANGED <<chunks, mpc, spawnI, outcome, semaphore, resultChan, chanClosed, wg,
                   closerPc, results, errors, sentCount, recvCount, tookOutOfOrder, ret, nonSchedVars>>

\* worker: result, err := performAnalyze(systemMessage, data) returns
AnalyzeReturn(i) ==
    /\ wpc[i] = "analyze"
    /\ \E o \in AnalyzeOutcomes(chunks[i + 1]) : outcome' = [outcome EXCEPT ![i] = o]
    /\ wpc' = [wpc EXCEPT ![i] = "send"]
    /\ UNCHANGED <<chunks, mpc, spawnI, semaphore, resultChan, chanClosed, wg, closerPc,
                   results, errors, sentCount, recvCount, tookOutOfOrder, ret, nonSchedVars>>

\* worker: resultChan <- ChunkResult{...}; the channel's capacity is
\* numChunks; a send on a closed channel panics
Send(i) ==
    /\ wpc[i] = "send"
    /\ chanClosed \/ Len(resultChan) < Len(chunks)
    /\ IF chanClosed
       THEN /\ wpc' = [wpc EXCEPT ![i] = "panicked"]
            /\ UNCHANGED <<resultChan, sentCount>>
       ELSE /\ LET r == ChunkResultOf(i, outcome[i])
               IN  /\ resultChan' = Append(resultChan, r)
                   /\ sentCount' = [sentCount EXCEPT ![r.Index] = @ + 1]
            /\ wpc' = [wpc EXCEPT ![i] = "release"]
    /\ UNCHANGED <<chunks, mpc, spawnI, outcome, semaphore, chanClosed, wg, closerPc,
                   results, errors, recvCount, tookOutOfOrder, ret, nonSchedVars>>

\* the bug of a worker that ends without giving its slot back
ReleaseKeepsSlot(i) ==
    /\ wpc[i] = "release"
    /\ wpc' = [wpc EXCEPT ![i] = "wgdone"]
    /\ UNCHANGED <<chunks, mpc, spawnI, outcome, semaphore, resultChan, chanClosed, wg,
                   closerPc, results, errors, sentCount, recvCount, tookOutOfOrder, ret,
                   nonSchedVars>>

\* worker: the deferred func() { <-semaphore }() runs first
Release(i) ==
    /\ wpc[i] = "release"
    /\ semaphore > 0
    /\ semaphore' = semaphore - 1
    /\ wpc' = [wpc EXCEPT ![i] = "wgdone"]
    /\ UNCHANGED <<chunks, mpc, spawnI, outcome, resultChan, chanClosed, wg, closerPc,
                   results, errors, sentCount, recvCount, tookOutOfOrder, ret, nonSchedVars>>

\* worker: the deferred wg.Done() runs last and the goroutine ends
WgDone(i) ==
    /\ wpc[i] = "wgdone"
    /\ wg' = wg - 1
    /\ wpc' = [wpc EXCEPT ![i] = "exited"]
    /\ UNCHANGED <<chunks, mpc, spawnI, outcome, semaphore, resultChan, chanClosed,
                   closerPc, results, errors, sentCount, recvCount, tookOutOfOrder, ret, nonSchedVars>>

\* the bug of closing the channel without waiting for the workers
WaitReturnsAtOnce == TRUE

\* wg.Wait() can return: the counter is zero
WaitReturns == wg = 0

\* closing goroutine: wg.Wait() returns, close(resultChan)
CloseChan ==
    /\ closerPc = "wait"
    /\ WaitReturns
    /\ chanClosed' = TRUE
    /\ closerPc' = "exited"
    /\ UNCHANGED <<chunks, mpc, spawnI, wpc, outcome, semaphore, resultChan, wg,
                   results, errors, sentCount, recvCount, tookOutOfOrder, ret, nonSchedVars>>

\* collector: one iteration of `for result := range resultChan`
Receive ==
    /\ mpc = "collect"
    /\ resultChan # <<>>
    /\ LET result == Head(resultChan)
       IN  /\ IF result.Error # "nil"
              THEN /\ errors' = Append(errors, result.Index + 1)
                   /\ UNCHANGED results
              ELSE /\ results' = StoreResult(results, result)
                   /\ UNCHANGED errors
           /\ recvCount' = [recvCount EXCEPT ![result.Index] = @ + 1]
           /\ tookOutOfOrder' = (tookOutOfOrder \/
                  \E j \in Workers : j > result.Index /\ recvCount[j] > 0)
    /\ resultChan' = Tail(resultChan)
    /\ UNCHANGED <<chunks, mpc, spawnI, wpc, outcome, semaphore, chanClosed, wg, closerPc,
                   sentCount, ret, nonSchedVars>>

\* the bug of failing the batch only when every unit failed
AllFailed == Len(errors) > 0 /\ Len(errors) = Len(chunks)

\* if len(errors) > 0
AnyFailed == Len(errors) > 0

\* collector: the range loop ends on the closed, drained channel; the
\* function returns nil and an error when errors were collected, else results
Return ==
    /\ mpc = "collect"
    /\ resultChan = <<>> /\ chanClosed
    /\ ret' = IF AnyFailed
              THEN [results |-> <<>>, content |-> <<>>, err |-> "errors processing chunks"]
              ELSE [results |-> results, content |-> <<>>, err |-> "nil"]
    /\ mpc' = "returned"
    /\ UNCHANGED <<chunks, spawnI, wpc, outcome, semaphore, resultChan, chanClosed, wg,
                   closerPc, results, errors, sentCount, recvCount, tookOutOfOrder, nonSchedVars>>

NextSched ==
    \/ Spawn
    \/ StartCollect
    \/ \E i \in Workers : Acquire(i)
    \/ \E i \in Workers : StaggerDone(i)
    \/ \E i \in Workers : AnalyzeReturn(i)
    \/ \E i \in Workers : Send(i)
    \/ \E i \in Workers : Release(i)
    \/ \E i \in Workers : WgDone(i)
    \/ CloseChan
    \/ Receive
    \/ Return

SpecSched == InitSched /\ [][NextSched]_vars

\* the scheduler with goroutines that keep running: as long as some
\* goroutine can take a step, a step is taken; a performAnalyze call that was
\* entered returns
SpecSchedLive == SpecSched /\ WF_vars(NextSched)

(***************************************************************************)
(* Properties of the scheduler                                             *)
(***************************************************************************)
\* the workers inside the extraction call
InFlight == {i \in Workers : wpc[i] = "analyze"}

\* C1: the number of workers inside performAnalyze at the same time never
\* exceeds maxConcurrentRequests.
C1_AtMostMaxConcurrentInFlight == Cardinality(InFlight) <= maxConcurrentRequests

\* C1 witness: more chunks than slots, every slot used by a worker inside
\* the call and a worker waiting for a slot
C1_Witness ==
    /\ Len(chunks) > maxConcurrentRequests
    /\ Cardinality(InFlight) = maxConcurrentRequests
    /\ \E i \in Workers : wpc[i] = "acquire"

\* C2: for every chunk exactly one ChunkResult with its index is sent and
\* consumed: never two, and by the time the function returns exactly one.
C2_ExactlyOneResultPerChunk ==
    /\ \A i \in Workers : sentCount[i] <= 1 /\ recvCount[i] <= 1
    /\ mpc = "returned" =>
           \A i \in Workers : sentCount[i] = 1 /\ recvCount[i] = 1

\* C2 witness: a returned batch with a success, an empty content and an error
C2_Witness ==
    /\ mpc = "returned"
    /\ \E i, j, k \in Workers :
           /\ outcome[i].err = "nil" /\ outcome[i].content # <<>>
           /\ outcome[j].err = "nil" /\ outcome[j].content = <<>>
           /\ outcome[k].err # "nil"

AllSucceeded == \A i \in Workers : outcome[i].err = "nil"

\* C7: when every unit succeeds, position i of the returned sequence holds
\* the content extracted from chunks[i], whatever the order of delivery.
C7_ResultsInIndexOrder ==
    (mpc = "returned" /\ AllSucceeded) =>
        /\ ret.err = "nil"
        /\ Len(ret.results) = Len(chunks)
        /\ \A i \in Workers : ret.results[i + 1] = outcome[i].content

\* C7 witness: three or more units succeeded with a content and the
\* collector took them in an order other than index order
C7_Witness ==
    /\ mpc = "returned" /\ AllSucceeded
    /\ Len(chunks) >= 3
    /\ \A i \in Workers : outcome[i].content # <<>>
    /\ tookOutOfOrder

SlotHolders == {i \in Workers : wpc[i] \in {"stagger", "analyze", "send", "release"}}

\* the tokens in the semaphore are those of the workers at these positions
SemaphoreCountsHolders == semaphore = Cardinality(SlotHolders)

\* the workers that hold a slot and are past their stagger sleep
PastStagger == {i \in Workers : wpc[i] \in {"analyze", "send", "release"}}

\* C14: a worker sleeps its stagger delay before it acquires a slot: every
\* token in the semaphore belongs to a worker that is past its stagger
\* sleep, none to a worker that is sleeping it.
C14_StaggerSleepHoldsNoSlot == semaphore = Cardinality(PastStagger)

\* C20: processChunksConcurrently returns only after every worker has
\* finished and its outcome has been delivered and collected, also when a
\* unit failed; the result channel is closed only after the last worker is
\* done, and no worker is ever stopped by a send on the closed channel.
C20_ReturnsAfterAllWorkers ==
    /\ chanClosed => \A i \in Workers : wpc[i] = "exited" /\ sentCount[i] = 1
    /\ mpc = "returned" =>
           /\ chanClosed /\ resultChan = <<>>
           /\ \A i \in Workers :
                  wpc[i] = "exited" /\ outcome[i].err # "unset" /\ recvCount[i] = 1
    /\ \A i \in Workers : wpc[i] # "panicked"

\* C20 witness: a batch of three returned an error; one unit failed and
\* the other two were extracted with a content all the same
C20_Witness ==
    /\ mpc = "returned" /\ ret.err # "nil"
    /\ Len(chunks) = 3
    /\ outcome[0].err = "failed"
    /\ outcome[1].content # <<>> /\ outcome[2].content # <<>>

\* C27: for every number of chunks, when every extraction call returns,
\* processChunksConcurrently returns: every worker got a slot, sent its
\* result and ended, every slot was given back, the result channel was
\* closed and drained, and the collector loop ended.
C27_SchedulerTerminates ==
    <>(/\ mpc = "returned"
       /\ \A i \in Workers : wpc[i] = "exited" /\ sentCount[i] = 1 /\ recvCount[i] = 1
       /\ semaphore = 0 /\ wg = 0
       /\ closerPc = "exited" /\ chanClosed /\ resultChan = <<>>)

\* C27 witness: a batch of more chunks than slots has returned
C27_Witness ==
    /\ mpc = "returned" /\ Len(chunks) > maxConcurrentRequests
    /\ \A i \in Workers : wpc[i] = "exited"
    /\ semaphore = 0

(***************************************************************************)
(* SpecAnalyze: performAnalyze against an API that answers by a script     *)
(***************************************************************************)
\* An error of the API is named by a short string; ErrorText is err.Error().
\* "org 2s" is a rate-limit message that suggests a wait in seconds and
\* holds the letters "ms" elsewhere (in the organisation's name).
ErrorText(e) ==
    CASE e = "status 429" ->
           <<"s", "t", "a", "t", "u", "s", " ", "c", "o", "d", "e", ":", " ",
             "4", "2", "9">>
      [] e = "tpm 607ms" ->
           <<"r", "a", "t", "e", "_", "l", "i", "m", "i", "t", "_", "e", "x",
             "c", "e", "e", "d", "e", "d", ":", " ", "P", "l", "e", "a", "s",
             "e", " ", "t", "r", "y", " ", "a", "g", "a", "i", "n", " ", "i",
             "n", " ", "6", "0", "7", "m", "s", ".">>
      [] e = "rpm 2s" ->
           <<"R", "a", "t", "e", " ", "l", "i", "m", "i", "t", " ", "r", "e",
             "a", "c", "h", "e", "d", ".", " ", "P", "l", "e", "a", "s", "e",
             " ", "t", "r", "y", " ", "a", "g", "a", "i", "n", " ", "i", "n",
             " ", "2", "s", ".">>
      [] e = "org 2s" ->
           <<"T", "o", "o", " ", "M", "a", "n", "y", " ", "R", "e", "q", "u",
             "e", "s", "t", "s", " ", "f", "o", "r", " ", "o", "r", "g", "-",
             "h", "m", "s", ".", " ", "P", "l", "e", "a", "s", "e", " ", "t",
             "r", "y", " ", "a", "g", "a", "i", "n", " ", "i", "n", " ", "2",
             "s", ".">>
      [] e = "status 500" ->
           <<"s", "t", "a", "t", "u", "s", " ", "c", "o", "d", "e", ":", " ",
             "5", "0", "0">>
      [] e = "deadline" ->
           <<"c", "o", "n", "t", "e", "x", "t", " ", "d", "e", "a", "d", "l",
             "i", "n", "e", " ", "e", "x", "c", "e", "e", "d", "e", "d">>

\* the wait each error's text suggests, in milliseconds; 0 when it suggests none
SuggestedWait(e) ==
    CASE e = "tpm 607ms" -> 607
      [] e \in {"rpm 2s", "org 2s"} -> 2000
      [] OTHER -> 0

RateLimitPhrases == <<<<"r", "a", "t", "e", "_", "l", "i", "m", "i", "t", "_", "e", "x", "c", "e", "e", "d", "e", "d">>,
                      <<"4", "2", "9">>,
                      <<"T", "o", "o", " ", "M", "a", "n", "y", " ", "R", "e", "q", "u", "e", "s", "t", "s">>>>

\* the bug of taking every error for a rate limit
IsAnyError(e) == TRUE

\* the four strings.Contains tests on err.Error()
IsRateLimit(e) ==
    \/ \E k \in 1..Len(RateLimitPhrases) : Contains(ErrorText(e), RateLimitPhrases[k])
    \/ Contains(ToLower(ErrorText(e)), <<"r", "a", "t", "e", " ", "l", "i", "m", "i", "t">>)

\* strings.Index(str, sep) at or after position i (1-based), 0 when there is none
RECURSIVE IndexFrom(_, _, _)
IndexFrom(str, sep, i) ==
    IF i + Len(sep) - 1 > Len(str) THEN 0
    ELSE IF SubSeq(str, i, i + Len(sep) - 1) = sep THEN i
    ELSE IndexFrom(str, sep, i + 1)

\* strings.Split(str, sep) for a non-empty sep
RECURSIVE Split(_, _)
Split(str, sep) ==
    LET i == IndexFrom(str, sep, 1)
    IN  IF i = 0 THEN <<str>>
        ELSE <<SubSeq(str, 1, i - 1)>> \o Split(SubSeq(str, i + Len(sep), Len(str)), sep)

\* strings.TrimSpace (the texts hold no other white space than " ")
RECURSIVE TrimSpace(_)
TrimSpace(str) ==
    IF str = <<>> THEN str
    ELSE IF Head(str) = " " THEN TrimSpace(Tail(str))
    ELSE IF str[Len(str)] = " " THEN TrimSpace(SubSeq(str, 1, Len(str) - 1))
    ELSE str

DecimalDigit == <<"0", "1", "2", "3", "4", "5", "6", "7", "8", "9">>

IsDigit(c) == \E d \in 1..10 : DecimalDigit[d] = c

DigitValue(c) == (CHOOSE d \in 1..10 : DecimalDigit[d] = c) - 1

\* leadingInt / leadingFraction: the length of the run of digits str starts with
RECURSIVE DigitsLen(_)
DigitsLen(str) ==
    IF str = <<>> \/ ~IsDigit(Head(str)) THEN 0 ELSE 1 + DigitsLen(Tail(str))

\* the unit: the run of bytes up to the next "." or digit
RECURSIVE UnitLen(_)
UnitLen(str) ==
    IF str = <<>> \/ Head(str) = "." \/ IsDigit(Head(str)) THEN 0
    ELSE 1 + UnitLen(Tail(str))

RECURSIVE DecimalValue(_, _)
DecimalValue(digits, acc) ==
    IF digits = <<>> THEN acc
    ELSE DecimalValue(Tail(digits), 10 * acc + DigitValue(Head(digits)))

RECURSIVE Pow10(_)
Pow10(n) == IF n = 0 THEN 1 ELSE 10 * Pow10(n - 1)

\* time.ParseDuration's unitMap, in milliseconds ("ns", "us" are below the
\* resolution kept here and are not drawn)
UnitMillis(u) ==
    CASE u = <<"m", "s">> -> 1
      [] u = <<"s">> -> 1000
      [] u = <<"m">> -> 60000
      [] u = <<"h">> -> 3600000
      [] OTHER -> 0

\* time.ParseDuration on an unsigned string: groups of [0-9]*(\.[0-9]*)?unit;
\* the result is [ok, ms]; d is the sum of the groups read so far
RECURSIVE ParseGroups(_, _)
ParseGroups(str, d) ==
    IF str = <<>> THEN [ok |-> TRUE, ms |-> d]
    ELSE IF ~(Head(str) = "." \/ IsDigit(Head(str))) THEN [ok |-> FALSE, ms |-> 0]
    ELSE LET pre == DigitsLen(str)
             s1 == SubSeq(str, pre + 1, Len(str))
             dot == s1 # <<>> /\ Head(s1) = "."
             s2 == IF dot THEN Tail(s1) ELSE s1
             post == IF dot THEN DigitsLen(s2) ELSE 0
             s3 == SubSeq(s2, post + 1, Len(s2))
             i == UnitLen(s3)
             unit == UnitMillis(SubSeq(s3, 1, i))
             v == DecimalValue(SubSeq(str, 1, pre), 0)
             f == DecimalValue(SubSeq(s2, 1, post), 0)
         IN  IF (pre = 0 /\ post = 0) \/ i = 0 \/ unit = 0
             THEN [ok |-> FALSE, ms |-> 0]
             ELSE ParseGroups(SubSeq(s3, i + 1, Len(s3)),
                              d + v * unit + (f * unit) \div Pow10(post))

ParseDuration(str) ==
    IF str = <<>> THEN [ok |-> FALSE, ms |-> 0] ELSE ParseGroups(str, 0)

TryAgainIn == <<"P", "l", "e", "a", "s", "e", " ", "t", "r", "y", " ", "a", "g", "a", "i", "n", " ", "i", "n">>

\* the part of parseRetryAfter common to its two branches: the text after
\* the first "Please try again in " up to the first occurrence of unit
TimePart(errorMsg, unit) ==
    LET parts == Split(errorMsg, TryAgainIn \o <<" ">>)
    IN  IF Len(parts) > 1
        THEN ParseDuration(TrimSpace(Split(parts[2], unit)[1]) \o unit)
        ELSE [ok |-> FALSE, ms |-> 0]

\* parseRetryAfter: the duration after "Please try again in", in
\* milliseconds; 0 when none is found or it does not parse
parseRetryAfter(errorMsg) ==
    IF Contains(errorMsg, TryAgainIn)
    THEN IF Contains(errorMsg, <<"m", "s">>)
         THEN IF TimePart(errorMsg, <<"m", "s">>).ok
              THEN TimePart(errorMsg, <<"m", "s">>).ms ELSE 0
         ELSE IF Contains(errorMsg, <<"s">>)
         THEN IF TimePart(errorMsg, <<"s">>).ok
              THEN TimePart(errorMsg, <<"s">>).ms ELSE 0
         ELSE 0
    ELSE 0

RECURSIVE Pow2(_)
Pow2(n) == IF n = 0 THEN 1 ELSE 2 * Pow2(n - 1)

\* retryBaseDelay << (retries-1), capped at maxRetryDelay
Backoff(r) == Min(retryBaseDelay * Pow2(r - 1), maxRetryDelay)

\* waitTime of the retry that brings the counter to r
WaitTime(msg, r) ==
    IF parseRetryAfter(ErrorText(msg)) = 0 THEN Backoff(r)
    ELSE parseRetryAfter(ErrorText(msg))

\* retrying one time too many
RetryAllowedOffByOne(r) == r <= maxRetries

\* if retries < maxRetries
RetryAllowed(r) == r < maxRetries

\* dropping the content of a call that succeeded after a retry
SuccessValueFirstTryOnly(answer) ==
    [results |-> <<>>,
     content |-> IF retries = 0 /\ Len(answer.choices) > 0 THEN answer.choices[1] ELSE <<>>,
     err |-> "nil"]

\* the value returned after a successful call: the first choice's content,
\* "" when there is no choice
SuccessValue(answer) ==
    [results |-> <<>>,
     content |-> IF Len(answer.choices) > 0 THEN answer.choices[1] ELSE <<>>,
     err |-> "nil"]

ErrorValue(e) == [results |-> <<>>, content |-> <<>>, err |-> e]

\* the answers of the API to one request
RateLimitErrors == {"status 429", "tpm 607ms", "rpm 2s", "org 2s"}

OtherErrors == {"status 500", "deadline"}

RateLimitAnswers == {[kind |-> "error", msg |-> e, choices |-> <<>>] : e \in RateLimitErrors}

FinalAnswers(data) ==
    {[kind |-> "ok", msg |-> "nil", choices |-> <<Extract(data)>>],
     [kind |-> "ok", msg |-> "nil", choices |-> <<>>]}
    \cup {[kind |-> "error", msg |-> e, choices |-> <<>>] : e \in OtherErrors}

\* an API that answers k requests with a rate-limit error and the next one
\* with a final answer
Scripts(data) ==
    {f \o <<a>> : f \in StringsUpTo(RateLimitAnswers, MaxFailures), a \in FinalAnswers(data)}

InitAnalyze ==
    /\ HandlerIdle
    /\ ChunkIdle /\ FilterIdle /\ SchedIdle /\ RunIdle
    /\ apc = "env"
    /\ adata = <<"a">>
    /\ script \in Scripts(adata)
    /\ retries = 0
    /\ callsMade = 0
    /\ waits = <<>>
    /\ aret = NoRet

\* godotenv.Load() and the OPENAI_KEY lookup; either can fail and end the call
LoadEnv ==
    /\ apc = "env"
    /\ \E e \in {"nil", "error loading .env file", "OPENAI_KEY is not set"} :
          IF e = "nil"
          THEN apc' = "presleep" /\ UNCHANGED aret
          ELSE apc' = "returned" /\ aret' = ErrorValue(e)
    /\ UNCHANGED <<adata, script, retries, callsMade, waits, nonAnalyzeVars>>

\* time.Sleep(preRequestDelay); maxRetries := 5; retries := 0
PreRequestDelay ==
    /\ apc = "presleep"
    /\ apc' = "request"
    /\ retries' = 0
    /\ UNCHANGED <<adata, script, callsMade, waits, aret, nonAnalyzeVars>>

\* one iteration of the for loop: the request and the handling of its answer
Request ==
    /\ apc = "request"
    /\ callsMade < Len(script)
    /\ callsMade' = callsMade + 1
    /\ LET answer == script[callsMade + 1]
       IN  IF answer.kind = "error"
           THEN IF IsRateLimit(answer.msg)
                THEN IF RetryAllowed(retries)
                     THEN /\ retries' = retries + 1
                          /\ waits' = Append(waits, WaitTime(answer.msg, retries + 1))
                          /\ apc' = "backoff"
                          /\ UNCHANGED aret
                     ELSE /\ aret' = ErrorValue("max retries exceeded for rate limiting")
                          /\ apc' = "returned"
                          /\ UNCHANGED <<retries, waits>>
                ELSE /\ aret' = ErrorValue(answer.msg)
                     /\ apc' = "returned"
                     /\ UNCHANGED <<retries, waits>>
           ELSE /\ aret' = SuccessValue(answer)
                /\ apc' = "returned"
                /\ UNCHANGED <<retries, waits>>
    /\ UNCHANGED <<adata, script, nonAnalyzeVars>>

\* time.Sleep(waitTime) is over; continue
BackoffDone ==
    /\ apc = "backoff"
    /\ apc' = "request"
    /\ UNCHANGED <<adata, script, retries, callsMade, waits, aret, nonAnalyzeVars>>

NextAnalyze == LoadEnv \/ PreRequestDelay \/ Request \/ BackoffDone

SpecAnalyze == InitAnalyze /\ [][NextAnalyze]_vars

(***************************************************************************)
(* Properties of performAnalyze                                            *)
(***************************************************************************)
\* every request made so far was answered with a rate-limit error
AllCallsRateLimited ==
    \A j \in 1..callsMade : script[j].kind = "error" /\ IsRateLimit(script[j].msg)

\* the number of rate-limit answers the script gives before its final answer
Failures == Len(script) - 1

FinalAnswer == script[Len(script)]

\* C4 as stated: when every attempt fails with a rate-limit error,
\* performAnalyze makes exactly maxRetries attempts and then returns the
\* 'max retries exceeded' error.
C4_ExactlyMaxRetriesAttempts ==
    (apc = "returned" /\ callsMade > 0 /\ AllCallsRateLimited) =>
        /\ callsMade = maxRetries
        /\ aret.err = "max retries exceeded for rate limiting"

\* C4 amended: when every attempt fails with a rate-limit error,
\* performAnalyze makes exactly maxRetries + 1 attempts (the first request
\* and maxRetries retries) and then returns the 'max retries exceeded' error.
C4_ExactlyMaxRetriesPlusOneAttempts ==
    (apc = "returned" /\ callsMade > 0 /\ AllCallsRateLimited) =>
        /\ callsMade = maxRetries + 1
        /\ retries = maxRetries
        /\ aret.err = "max retries exceeded for rate limiting"
        /\ aret.content = <<>>

\* C4 witness: a call that returned after nothing but rate-limit errors
C4_Witness ==
    /\ apc = "returned" /\ callsMade > 0 /\ AllCallsRateLimited
    /\ Failures > maxRetries

\* C5: when the API fails with a rate-limit error exactly k < maxRetries
\* times and then succeeds, performAnalyze returns the content of the
\* successful call and a nil error after exactly k + 1 calls.
C5_RecoversAfterRateLimits ==
    (apc = "returned" /\ callsMade > 0 /\ Failures < maxRetries /\ FinalAnswer.kind = "ok") =>
        /\ callsMade = Failures + 1
        /\ aret.err = "nil"
        /\ aret.content = (IF Len(FinalAnswer.choices) > 0 THEN FinalAnswer.choices[1] ELSE <<>>)

\* C5 witness: a success with a content after maxRetries - 1 rate-limit errors
C5_Witness ==
    /\ apc = "returned" /\ callsMade > 0
    /\ Failures = maxRetries - 1 /\ FinalAnswer.kind = "ok"
    /\ aret.content # <<>>

\* the last request made was answered with an error that is no rate limit
OtherErrorAnswered ==
    callsMade > 0 /\ script[callsMade].kind = "error" /\ script[callsMade].msg \in OtherErrors

C18_WaitIsSuggestedOrBackoff ==
    /\ Len(waits) <= maxRetries
    /\ \A n \in 1..Len(waits) :
           IF SuggestedWait(script[n].msg) > 0
           THEN waits[n] = SuggestedWait(script[n].msg)
           ELSE /\ waits[n] = Min(retryBaseDelay * Pow2(n - 1), maxRetryDelay)
                /\ waits[n] = <<1000, 2000, 4000, 8000, 16000>>[n]
                /\ waits[n] <= 60000

(***************************************************************************)
(* SpecRun: ScrapeHackerNews, runScript, saveResultsToFiles, compileLogs,  *)
(* consolidateLogs.  The log directory starts empty.                       *)
(***************************************************************************)
\* the values processChunksConcurrently can return for the chunks cs: an
\* error, or one content per chunk, each the extraction of that chunk or ""
processChunksConcurrently(cs) ==
    {[results |-> <<>>, content |-> <<>>, err |-> "errors processing chunks"] :
        k \in {1} \cap DOMAIN cs}
    \cup {[results |-> [j \in 1..Len(cs) |-> IF j \in E THEN <<>> ELSE Extract(cs[j])],
           content |-> <<>>, err |-> "nil"] : E \in SUBSET (1..Len(cs))}

\* the filtered chunks of a page with n units, the run having seen u before
PageChunks(u, n) == [j \in 1..n |-> <<UnitLetters[u + j]>>]

\* fmt.Sprintf("%d", k) as character codes
RECURSIVE DecimalDigits(_)
DecimalDigits(k) ==
    IF k < 10 THEN <<48 + k>> ELSE DecimalDigits(k \div 10) \o <<48 + (k % 10)>>

\* what distinguishes the name output-<k>.log: the digits, then "." (code 46)
NameKey(k) == DecimalDigits(k) \o <<46>>

RECURSIVE LexLess(_, _)
LexLess(s, t) ==
    IF s = <<>> THEN t # <<>>
    ELSE IF t = <<>> THEN FALSE
    ELSE IF Head(s) < Head(t) THEN TRUE
    ELSE IF Head(s) > Head(t) THEN FALSE
    ELSE LexLess(Tail(s), Tail(t))

\* os.ReadDir: the entries sorted by file name (compiled.log left out)
RECURSIVE ReadDirOrder(_)
ReadDirOrder(S) ==
    IF S = {} THEN <<>>
    ELSE LET first == CHOOSE k \in S : \A j \in S \ {k} : LexLess(NameKey(k), NameKey(j))
         IN  <<first>> \o ReadDirOrder(S \ {first})

\* a write of bytes at offset off of a file holding data
WriteAt(data, off, bytes) ==
    LET padded == IF Len(data) < off
                  THEN data \o [j \in 1..(off - Len(data)) |-> "NUL"]
                  ELSE data
    IN  SubSeq(padded, 1, off) \o bytes \o SubSeq(padded, off + Len(bytes) + 1, Len(padded))

\* the bug of saving without advancing the counter: every content of the
\* batch goes to the same file
SaveStepSameIndex(st, content) ==
    IF content = <<>> THEN st
    ELSE [files |-> [k \in DOMAIN st.files \cup {st.index} |->
                        IF k = st.index THEN content ELSE st.files[k]],
          index |-> st.index,
          writes |-> Append(st.writes, st.index)]

\* saveResultsToFiles: st = [files, index, writes]; one iteration of its
\* loop: an empty content is skipped, any other is saved by
\* saveFileByIndex(content, fileIndex) and then fileIndex++
SaveStep(st, content) ==
    IF content = <<>> THEN st
    ELSE [files |-> [k \in DOMAIN st.files \cup {st.index} |->
                        IF k = st.index THEN content ELSE st.files[k]],
          index |-> st.index + 1,
          writes |-> Append(st.writes, st.index)]

RECURSIVE SaveLoop(_, _)
SaveLoop(st, rs) ==
    IF rs = <<>> THEN st ELSE SaveLoop(SaveStep(st, Head(rs)), Tail(rs))

\* consolidateLogs: the bytes written to the freshly created compiled.log
ConsolidatedData(files) ==
    LET order == ReadDirOrder(DOMAIN files)
    IN  Flatten([p \in 1..Len(order) |-> files[order[p]] \o <<"\n">>])

\* os.Create on a file that exists truncates it
CreateTruncate(old) == <<>>

\* consolidateLogs: the bytes of compiled.log afterwards, old being its
\* bytes before; the per-unit files are all deleted at its end
consolidateLogs(old, files) == WriteAt(CreateTruncate(old), 0, ConsolidatedData(files))

NonEmpty(rs) == SelectSeq(rs, LAMBDA c : c # <<>>)

InitRun ==
    /\ HandlerIdle
    /\ ChunkIdle /\ FilterIdle /\ SchedIdle /\ AnalyzeIdle
    /\ rpc = "pages"
    /\ numPages \in 0..MaxPages
    /\ pageI = 0
    /\ pageResults = <<>>
    /\ fileIndex = 0
    /\ outputFiles = <<>>
    /\ compiled = NoFile
    /\ compileOff = 0
    /\ loopI = 0
    /\ unitCount = 0
    /\ produced = <<>>
    /\ rret = NoScrapeRet
    /\ runStart = <<0>>
    /\ writes = <<>>
    /\ pageLog = <<>>

\* the bug of logging the error of a page and going on with the next page
RunScriptFailsAndGoesOn ==
    /\ rpc = "pages" /\ pageI < numPages
    /\ pageLog' = Append(pageLog, [page |-> pageI, state |-> "failed"])
    /\ pageI' = pageI + 1
    /\ UNCHANGED <<rpc, numPages, pageResults, fileIndex, outputFiles, compiled,
                   compileOff, loopI, unitCount, produced, rret, runStart, writes,
                   nonRunVars>>

\* runScript: fetchHackerNews or breakUpData fails; the process ends
\* (log.Fatal in fetchHackerNews or in ScrapeHackerNews)
RunScriptFails ==
    /\ rpc = "pages" /\ pageI < numPages
    /\ rpc' = "fatal"
    /\ pageLog' = Append(pageLog, [page |-> pageI, state |-> "failed"])
    /\ UNCHANGED <<numPages, pageI, pageResults, fileIndex, outputFiles, compiled,
                   compileOff, loopI, unitCount, produced, rret, runStart, writes, nonRunVars>>

\* runScript up to the return of processChunksConcurrently: the page has n
\* filtered chunks; an error ends the process (log.Fatal in ScrapeHackerNews)
RunScriptProcess ==
    /\ rpc = "pages" /\ pageI < numPages
    /\ \E n \in 0..(MaxUnits - unitCount) :
         \E r \in processChunksConcurrently(PageChunks(unitCount, n)) :
            IF r.err # "nil"
            THEN /\ rpc' = "fatal"
                 /\ pageLog' = Append(pageLog, [page |-> pageI, state |-> "failed"])
                 /\ UNCHANGED <<pageResults, unitCount, produced>>
            ELSE /\ rpc' = "save"
                 /\ pageLog' = Append(pageLog, [page |-> pageI, state |-> "processed"])
                 /\ pageResults' = r.results
                 /\ unitCount' = unitCount + n
                 /\ produced' = produced \o NonEmpty(r.results)
    /\ UNCHANGED <<numPages, pageI, fileIndex, outputFiles, compiled, compileOff, loopI,
                   rret, runStart, writes, nonRunVars>>

\* runScript: saveResultsToFiles(results), then the next page
SaveResultsToFiles ==
    /\ rpc = "save"
    /\ LET st == SaveLoop([files |-> outputFiles, index |-> fileIndex,
                            writes |-> writes], pageResults)
       IN  /\ outputFiles' = st.files
           /\ fileIndex' = st.index
           /\ writes' = st.writes
    /\ pageLog' = [pageLog EXCEPT ![Len(pageLog)].state = "saved"]
    /\ pageI' = pageI + 1
    /\ rpc' = "pages"
    /\ UNCHANGED <<numPages, pageResults, compiled, compileOff, loopI, unitCount,
                   produced, rret, runStart, nonRunVars>>

\* compileLogs: os.Create(compiled.log) and the start of the loop
CompileStart ==
    /\ rpc = "pages" /\ pageI = numPages
    /\ compiled' = [exists |-> TRUE, data |-> <<>>]
    /\ compileOff' = 0
    /\ loopI' = 0
    /\ rpc' = "compile"
    /\ UNCHANGED <<numPages, pageI, pageResults, fileIndex, outputFiles, unitCount,
                   produced, rret, runStart, writes, pageLog,
                   nonRunVars>>

\* compileLogs: one iteration: open output-<i>.log (log.Fatal when it is
\* missing), copy it and "\n" through the handle, then call consolidateLogs,
\* which recreates compiled.log from the directory and deletes the other files
CompileIteration ==
    /\ rpc = "compile" /\ loopI < fileIndex
    /\ IF loopI \notin DOMAIN outputFiles
       THEN /\ rpc' = "fatal"
            /\ UNCHANGED <<compiled, compileOff, loopI, outputFiles>>
       ELSE LET bytes == outputFiles[loopI] \o <<"\n">>
                copied == WriteAt(compiled.data, compileOff, bytes)
            IN  /\ compileOff' = compileOff + Len(bytes)
                /\ compiled' = [exists |-> TRUE,
                                data |-> consolidateLogs(copied, outputFiles)]
                /\ outputFiles' = <<>>
                /\ loopI' = loopI + 1
                /\ rpc' = "compile"
    /\ UNCHANGED <<numPages, pageI, pageResults, fileIndex, unitCount, produced, rret,
                   runStart, writes, pageLog,
                   nonRunVars>>

\* the bug of handing the error of consolidateLogs back to the caller
ConsolidateErrorReturned == [pc |-> "returned", path |-> "", err |-> "consolidate failed"]

\* fileToReturn, err := consolidateLogs(); if err != nil { log.Fatal(err) }
ConsolidateError == [pc |-> "fatal", path |-> "none", err |-> "none"]

\* compileLogs returns; ScrapeHackerNews calls consolidateLogs and returns
\* the path of compiled.log with a nil error; when consolidateLogs fails
\* (here: at its os.Create, nothing written or removed) the process ends
ConsolidateAndReturn ==
    /\ rpc = "compile" /\ loopI >= fileIndex
    /\ \E ok \in BOOLEAN :
         IF ok
         THEN /\ compiled' = [exists |-> TRUE,
                              data |-> consolidateLogs(compiled.data, outputFiles)]
              /\ outputFiles' = <<>>
              /\ rret' = [path |-> "compiled.log", err |-> "nil"]
              /\ rpc' = "returned"
         ELSE /\ rpc' = ConsolidateError.pc
              /\ rret' = [path |-> ConsolidateError.path, err |-> ConsolidateError.err]
              /\ UNCHANGED <<compiled, outputFiles>>
    /\ UNCHANGED <<numPages, pageI, pageResults, fileIndex, compileOff, loopI, unitCount,
                   produced, runStart, writes, pageLog, nonRunVars>>

\* ScrapeHackerNews is called again in the same process (the next request
\* served by the same Lambda instance): the package variable fileIndex and
\* the log directory are as the run before left them
ScrapeAgain ==
    /\ rpc = "returned" /\ Len(runStart) < MaxRuns
    /\ numPages' \in 0..MaxPages
    /\ pageI' = 0
    /\ pageResults' = <<>>
    /\ produced' = <<>>
    /\ rret' = NoScrapeRet
    /\ pageLog' = <<>>
    /\ runStart' = Append(runStart, fileIndex)
    /\ rpc' = "pages"
    /\ UNCHANGED <<fileIndex, outputFiles, compiled, compileOff, loopI, unitCount,
                   writes, nonRunVars>>

NextRun ==
    \/ ScrapeAgain
    \/ RunScriptFails
    \/ RunScriptProcess
    \/ SaveResultsToFiles
    \/ CompileStart
    \/ CompileIteration
    \/ ConsolidateAndReturn

SpecRun == InitRun /\ [][NextRun]_vars

(***************************************************************************)
(* Properties of the run                                                   *)
(***************************************************************************)
\* each content followed by the record separator, in the given order
Terminated(contents) == Flatten([j \in 1..Len(contents) |-> contents[j] \o <<"\n">>])

\* the position of a content byte among the units of the run
UnitOf(c) == CHOOSE k \in 1..Len(UpperLetters) : UpperLetters[k] = c

\* the content bytes of the artifact, separators left out
Entries(data) == SelectSeq(data, LAMBDA c : c # "\n")

\* what SpecSched's processChunksConcurrently returns is among the values
\* SpecRun takes for it
SchedReturnsSummary == mpc = "returned" => ret \in processChunksConcurrently(chunks)

\* C3: after a run of ScrapeHackerNews that returns, compiled.log is the
\* concatenation of every non-empty content extracted in the run, each once
\* and each followed by the record separator.
C3_ArtifactHoldsEveryContent ==
    rpc = "returned" => (compiled.exists /\ compiled.data = Terminated(produced))

\* C8: the entries of compiled.log are in ascending numeric order of the
\* index under which they were saved (units are saved in ascending order,
\* one byte of content each).
C8_ArtifactInNumericOrder ==
    LET e == Entries(compiled.data)
    IN  \A p, q \in 1..Len(e) : p < q => UnitOf(e[p]) < UnitOf(e[q])

\* C16: a second run of ScrapeHackerNews in the same process is independent
\* of the first: its compile loop expects only files saved in the second
\* run (index at or above the counter value the first run left), it is not
\* stopped in the compile phase, and the file it returns holds exactly the
\* contents extracted in the second run.
C16_SecondRunIndependentOfFirst ==
    Len(runStart) >= 2 =>
        /\ (rpc = "compile" /\ loopI < fileIndex) => loopI >= runStart[Len(runStart)]
        /\ ~(rpc = "fatal" /\ pageI = numPages /\ loopI < fileIndex)
        /\ rpc = "returned" => compiled.data = Terminated(produced)

\* C26: in the first run of a process, whose saves all succeeded, every
\* file compileLogs is about to open is present: at each iteration
\* i < fileIndex the file output-<i>.log exists, and the run is not ended by
\* the fatal exit of compileLogs.
C26_CompileOpensOnlyExistingFiles ==
    Len(runStart) = 1 =>
        /\ (rpc = "compile" /\ loopI < fileIndex) => loopI \in DOMAIN outputFiles
        /\ ~(rpc = "fatal" /\ pageI = numPages /\ loopI < fileIndex)

\* C28: in a run, runScript is called with the pages in list order, each
\* once, the next page only after the page before was processed and saved;
\* the page that fails is the last one fetched and ends the run; compileLogs
\* starts only when every page of the list has been processed and saved.
C28_PagesInOrderCompileAfterAll ==
    /\ \A k \in 1..Len(pageLog) :
           /\ pageLog[k].page = k - 1
           /\ k < Len(pageLog) => pageLog[k].state = "saved"
    /\ Len(pageLog) <= numPages
    /\ \A k \in 1..Len(pageLog) : pageLog[k].state = "failed" => rpc = "fatal"
    /\ rpc \in {"compile", "returned"} =>
           /\ Len(pageLog) = numPages
           /\ \A k \in 1..numPages : pageLog[k].state = "saved"

\* C28 witness: compileLogs has started after the two pages of the list were
\* processed and saved, with two files or more written
C28_Witness ==
    /\ rpc = "compile" /\ numPages = 2 /\ Len(runStart) = 1
    /\ pageLog = <<[page |-> 0, state |-> "saved"], [page |-> 1, state |-> "saved"]>>
    /\ fileIndex >= 2

(***************************************************************************)
(* SpecBatch: ScrapeHackerNews on one page, from the cleaned document to   *)
(* the compiled file, with the scheduler of SpecSched in the middle        *)
(***************************************************************************)
\* the cleaned documents: each unit text of SchedInputs after a marker
BatchTexts == {Flatten([j \in 1..Len(f) |-> <<"<">> \o f[j]]) : f \in SchedInputs}

InitBatch ==
    /\ HandlerIdle
    /\ FilterIdle /\ SchedIdle /\ AnalyzeIdle
    /\ cphase = "input" /\ mode = "page" /\ text \in BatchTexts /\ xs = <<>>
    /\ chunksOut = <<>> /\ chunksTwice = <<>>
    /\ rpc = "breakup"
    /\ numPages = 1
    /\ pageI = 0
    /\ pageResults = <<>>
    /\ fileIndex = 0
    /\ outputFiles = <<>>
    /\ compiled = NoFile
    /\ compileOff = 0
    /\ loopI = 0
    /\ unitCount = 0
    /\ produced = <<>>
    /\ rret = NoScrapeRet
    /\ runStart = <<0>>
    /\ writes = <<>>
    /\ pageLog = <<>>

\* runScript: fetchHackerNews and breakUpData (either can fail, which ends
\* the process), filterChunksByKeywords, and the entry of
\* processChunksConcurrently
RunScriptBreakUp ==
    /\ rpc = "breakup"
    /\ \E ok \in BOOLEAN :
         IF ok
         THEN /\ chunksOut' = chunkByJobPostingsAt(text, BatchChunkSize)
              /\ cphase' = "broken up"
              /\ fin' = chunksOut'
              /\ fout' = filterChunksByKeywords(fin')
              /\ fphase' = "filtered"
              /\ chunks' = fout'
              /\ mpc' = "spawn"
              /\ wpc' = [i \in 0..(Len(chunks') - 1) |-> "unborn"]
              /\ outcome' = [i \in 0..(Len(chunks') - 1) |->
                                [content |-> <<>>, err |-> "unset"]]
              /\ closerPc' = "unborn"
              /\ sentCount' = [i \in 0..(Len(chunks') - 1) |-> 0]
              /\ recvCount' = [i \in 0..(Len(chunks') - 1) |-> 0]
              /\ rpc' = "sched"
              /\ pageLog' = Append(pageLog, [page |-> pageI, state |-> "fetched"])
         ELSE /\ rpc' = "fatal"
              /\ pageLog' = Append(pageLog, [page |-> pageI, state |-> "failed"])
              /\ UNCHANGED <<cphase, chunksOut, fphase, fin, fout, chunks, mpc, wpc,
                             outcome, closerPc, sentCount, recvCount>>
    /\ UNCHANGED <<mode, text, xs, chunksTwice, ftwice, spawnI, semaphore, resultChan,
                   chanClosed, wg, results, errors, tookOutOfOrder, ret, analyzeVars,
                   numPages, pageI, pageResults, fileIndex, outputFiles, compiled,
                   compileOff, loopI, unitCount, produced, rret, runStart, writes,
                   handlerVars>>

\* runScript after processChunksConcurrently returned: an error is passed up
\* and ends the process (log.Fatal in ScrapeHackerNews), else the results
\* go to saveResultsToFiles
RunScriptResume ==
    /\ rpc = "sched" /\ mpc = "returned"
    /\ IF ret.err # "nil"
       THEN /\ rpc' = "fatal"
            /\ pageLog' = [pageLog EXCEPT ![Len(pageLog)].state = "failed"]
            /\ UNCHANGED <<pageResults, unitCount, produced>>
       ELSE /\ rpc' = "save"
            /\ pageLog' = [pageLog EXCEPT ![Len(pageLog)].state = "processed"]
            /\ pageResults' = ret.results
            /\ unitCount' = unitCount + Len(chunks)
            /\ produced' = produced \o NonEmpty(ret.results)
    /\ UNCHANGED <<numPages, pageI, fileIndex, outputFiles, compiled, compileOff, loopI,
                   rret, runStart, writes, nonRunVars>>

NextBatch ==
    \/ RunScriptBreakUp
    \/ NextSched
    \/ RunScriptResume
    \/ SaveResultsToFiles
    \/ CompileStart
    \/ CompileIteration
    \/ ConsolidateAndReturn

SpecBatch == InitBatch /\ [][NextBatch]_vars

(***************************************************************************)
(* Properties of the run of one page                                       *)
(***************************************************************************)
\* some unit's extraction ended in an error
UnitFailed == \E i \in Workers : outcome[i].err \notin {"nil", "unset"}

\* C15: when the extraction of a unit of the batch ended in an error,
\* processChunksConcurrently returns an error and no results, no per-unit
\* file is written for any unit of the batch, and the run never gets to
\* saving, compiling or returning the compiled file.
C15_FailedUnitAbortsTheRun ==
    UnitFailed =>
        /\ mpc = "returned" => (ret.err # "nil" /\ ret.results = <<>>)
        /\ outputFiles = <<>> /\ fileIndex = 0
        /\ ~compiled.exists /\ rret = NoScrapeRet
        /\ rpc \in {"sched", "fatal"}

\* C15 witness: the run ended on the error of one unit while another unit
\* of the batch had been extracted with a content
C15_Witness ==
    /\ rpc = "fatal" /\ mpc = "returned" /\ UnitFailed
    /\ \E j \in Workers : outcome[j].err = "nil" /\ outcome[j].content # <<>>

\* C21: the per-unit files are created one at a time by saveResultsToFiles,
\* file k exactly once and in the order k = 0, 1, 2, ... with no number left
\* out; an empty result uses up no number (as many files as non-empty
\* contents); and a file is created only after processChunksConcurrently
\* has returned, when every worker of the batch has ended.
C21_FilesWrittenOnceInOrderAfterWorkers ==
    /\ writes = [j \in 1..Len(writes) |-> j - 1]
    /\ Len(writes) = fileIndex
    /\ rpc # "save" => Len(writes) = runStart[Len(runStart)] + Len(produced)
    /\ writes # <<>> =>
           /\ rpc \notin {"breakup", "sched"}
           /\ \A i \in Workers : wpc[i] = "exited"

\* C21 witness: a batch of three units, the second with an empty result,
\* has been saved as output-0.log and output-1.log
C21_Witness ==
    /\ rpc = "pages" /\ pageI = 1 /\ Len(chunks) = 3
    /\ pageResults[1] # <<>> /\ pageResults[2] = <<>> /\ pageResults[3] # <<>>
    /\ writes = <<0, 1>>
    /\ DOMAIN outputFiles = {0, 1}

\* the postings of a cleaned document: from each marker to the next one
PostingsOf(data) ==
    LET matches == Matches(data)
    IN  [i \in 1..Len(matches) |->
            SubSeq(data, matches[i],
                   IF i < Len(matches) THEN matches[i + 1] - 1 ELSE Len(data))]

\* every extraction call made so far returned its input in upper case
ExtractionUppercases ==
    \A i \in Workers :
        outcome[i].err = "unset"
            \/ outcome[i] = [content |-> Extract(chunks[i + 1]), err |-> "nil"]

\* C12: for a document of three postings of which exactly two hold a
\* keyword, and an extraction that returns its input in upper case, the run
\* is not ended in compileLogs and the compiled file it returns holds exactly two
\* entries: the two matching postings in upper case, in posting order.
C12_ArtifactHoldsTheTwoMatchingPostings ==
    LET ps == PostingsOf(text)
        kept == KeptPositions(ps)
    IN  (cphase = "broken up" /\ Len(ps) = 3 /\ Len(kept) = 2 /\ ExtractionUppercases) =>
            /\ ~(rpc = "fatal" /\ loopI < fileIndex)
            /\ rpc = "returned" =>
                   compiled.data = Terminated(<<Extract(ps[kept[1]]), Extract(ps[kept[2]])>>)

(***************************************************************************)
(* SpecHandler: lambdaHandler serving one request in a fresh process, with *)
(* the run of ScrapeHackerNews in the middle                               *)
(***************************************************************************)
\* the body of a request as JSON tokens: "s" is a string literal (a URL),
\* "1" a number
JsonTokens == {"[", "]", ",", "s", "null", "1"}

JsonScalars == {"s", "null", "1"}

\* a comma-separated list of scalars
IsElementList(ts) ==
    /\ Len(ts) % 2 = 1
    /\ \A k \in 1..Len(ts) : IF k % 2 = 1 THEN ts[k] \in JsonScalars ELSE ts[k] = ","

\* the bodies that are one JSON value: a scalar, or an array of scalars
\* (an array inside an array is turned down by Unmarshal either way)
IsJsonValue(body) ==
    \/ Len(body) = 1 /\ body[1] \in JsonScalars
    \/ /\ Len(body) >= 2 /\ body[1] = "[" /\ body[Len(body)] = "]"
       /\ LET inner == SubSeq(body, 2, Len(body) - 1)
          IN  inner = <<>> \/ IsElementList(inner)

\* the elements of an array body
ElementsOf(body) ==
    LET inner == SubSeq(body, 2, Len(body) - 1)
    IN  [k \in 1..((Len(inner) + 1) \div 2) |-> inner[2 * k - 1]]

\* json.Unmarshal([]byte(request.Body), &pagesToScrape) for a []string: a
\* syntax error for a body that is not one JSON value; null sets the slice to
\* nil without an error; another scalar is a type error; in an array a
\* string is appended, null appends "" without an error, a number is a type
\* error
Unmarshal(body) ==
    IF ~IsJsonValue(body) THEN [err |-> "syntax error", pages |-> <<>>]
    ELSE IF body = <<"null">> THEN [err |-> "nil", pages |-> <<>>]
    ELSE IF Len(body) = 1 THEN [err |-> "type error", pages |-> <<>>]
    ELSE LET elems == ElementsOf(body)
         IN  [err |-> IF \E k \in 1..Len(elems) : elems[k] = "1"
                      THEN "type error" ELSE "nil",
              pages |-> [k \in 1..Len(elems) |-> IF elems[k] = "s" THEN "url" ELSE ""]]

\* request.QueryStringParameters["scraper"]; "" when the parameter is missing
ScraperValues == {"hackernews", "linkedin", "indeed", ""}

Requests == [body : StringsUpTo(JsonTokens, MaxBodyLen), scraper : ScraperValues]

Answer(status, message) == [status |-> status, success |-> status = 200, message |-> message]

InitHandler ==
    /\ ChunkIdle /\ FilterIdle /\ SchedIdle /\ AnalyzeIdle /\ RunIdle
    /\ hpc = "parse"
    /\ request \in Requests
    /\ pagesToScrape = <<>>
    /\ response = NoResponse

\* lambdaHandler: json.Unmarshal of the body; status 400 when it fails
HandlerParse ==
    /\ hpc = "parse"
    /\ LET r == Unmarshal(request.body)
       IN  IF r.err # "nil"
           THEN /\ response' = Answer(400, "Invalid request body")
                /\ hpc' = "answered"
                /\ UNCHANGED pagesToScrape
           ELSE /\ pagesToScrape' = r.pages
                /\ hpc' = "dispatch"
                /\ UNCHANGED response
    /\ UNCHANGED <<request, chunkVars, filterVars, schedVars, analyzeVars, runVars>>

\* lambdaHandler: switch scraperType; "hackernews" calls ScrapeHackerNews
HandlerDispatch ==
    /\ hpc = "dispatch"
    /\ IF request.scraper = "hackernews"
       THEN /\ hpc' = "scraping"
            /\ rpc' = "pages"
            /\ numPages' = Len(pagesToScrape)
            /\ pageI' = 0
            /\ pageResults' = <<>>
            /\ produced' = <<>>
            /\ rret' = NoScrapeRet
            /\ runStart' = Append(runStart, fileIndex)
            /\ pageLog' = <<>>
            /\ UNCHANGED response
       ELSE /\ hpc' = "answered"
            /\ response' = IF request.scraper = "linkedin"
                           THEN Answer(501, "LinkedIn scraper unavailable")
                           ELSE Answer(400, "Invalid or missing scraper parameter")
            /\ UNCHANGED <<rpc, numPages, pageI, pageResults, produced, rret, runStart,
                           pageLog>>
    /\ UNCHANGED <<request, pagesToScrape, fileIndex, outputFiles, compiled, compileOff,
                   loopI, unitCount, writes, chunkVars, filterVars, schedVars,
                   analyzeVars>>

\* runScript(url) gets as far as the return of processChunksConcurrently:
\* fetchHackerNews cannot fetch the empty URL
HandlerRunScriptProcess ==
    /\ hpc = "scraping"
    /\ pageI < numPages /\ pagesToScrape[pageI + 1] # ""
    /\ RunScriptProcess

\* lambdaHandler after ScrapeHackerNews returned: status 500 for an error,
\* else os.ReadFile and os.Stat of the file (status 500 when one fails),
\* the answer with status 200, and os.Remove of the file.  json.Marshal of
\* the FileDownloadResponse (strings, an int64, a bool) does not fail.
HandlerRespond ==
    /\ hpc = "scraping" /\ rpc = "returned"
    /\ hpc' = "answered"
    /\ IF rret.err # "nil"
       THEN /\ response' = Answer(500, "Error scraping Hacker News")
            /\ UNCHANGED compiled
       ELSE \E readOk, statOk \in BOOLEAN :
              IF ~readOk
              THEN /\ response' = Answer(500, "Error reading file")
                   /\ UNCHANGED compiled
              ELSE IF ~statOk
              THEN /\ response' = Answer(500, "Error getting file info")
                   /\ UNCHANGED compiled
              ELSE /\ response' = Answer(200, "Hacker News scraping completed successfully")
                   /\ compiled' = NoFile
    /\ UNCHANGED <<request, pagesToScrape, rpc, numPages, pageI, pageResults, fileIndex,
                   outputFiles, compileOff, loopI, unitCount, produced, rret, runStart,
                   writes, pageLog, chunkVars, filterVars, schedVars, analyzeVars>>

NextHandler ==
    \/ HandlerParse
    \/ HandlerDispatch
    \/ RunScriptFails
    \/ HandlerRunScriptProcess
    \/ SaveResultsToFiles
    \/ CompileStart
    \/ CompileIteration
    \/ ConsolidateAndReturn
    \/ HandlerRespond

SpecHandler == InitHandler /\ [][NextHandler]_vars

(***************************************************************************)
(* Properties of the handler                                               *)
(***************************************************************************)
\* C29: ScrapeHackerNews returns only the path of compiled.log with a nil
\* error; a failure inside it ends the process with no answer; so the
\* handler never answers "Error scraping Hacker News", and after a return of
\* ScrapeHackerNews the answer is status 200 with success = true unless
\* reading the file (its bytes or its size) fails.
C29_ScrapeNeverReturnsAnError ==
    /\ rpc = "returned" => rret = [path |-> "compiled.log", err |-> "nil"]
    /\ rpc = "fatal" => (hpc = "scraping" /\ response = NoResponse)
    /\ response.message # "Error scraping Hacker News"
    /\ (hpc = "answered" /\ rpc = "returned") =>
           \/ response.status = 200 /\ response.success
           \/ /\ response.status = 500 /\ ~response.success
              /\ response.message \in {"Error reading file", "Error getting file info"}

\* C29 witness: a request for one page was answered with status 200 after
\* a run that saved a result
C29_Witness ==
    /\ hpc = "answered" /\ rpc = "returned"
    /\ request.body = <<"[", "s", "]">>
    /\ fileIndex >= 1
    /\ response.status = 200 /\ response.success

\* the body is a JSON array whose elements are all strings
IsArrayOfStrings(body) ==
    /\ IsJsonValue(body) /\ Len(body) >= 2
    /\ \A k \in 1..Len(ElementsOf(body)) : ElementsOf(body)[k] = "s"

\* C30: ScrapeHackerNews is called only for a body that is a JSON array of
\* strings with scraper = "hackernews"; any other body is answered with
\* status 400 whatever the scraper parameter; an array of strings with
\* scraper = "linkedin" is answered with 501 and with any other or no
\* scraper value with 400; these answers are given without a page fetched.
C30_ScrapesOnlyForArrayOfStrings ==
    /\ rpc # "idle" => (IsArrayOfStrings(request.body) /\ request.scraper = "hackernews")
    /\ hpc = "answered" =>
           /\ ~IsArrayOfStrings(request.body) => response.status = 400
           /\ (IsArrayOfStrings(request.body) /\ request.scraper = "linkedin")
                  => response.status = 501
           /\ (IsArrayOfStrings(request.body)
                  /\ request.scraper \notin {"hackernews", "linkedin"})
                  => response.status = 400
           /\ response.status \in {400, 501} => (rpc = "idle" /\ pageLog = <<>>)

====
